---- MODULE Spec2Model ----
(***************************************************************************)
(* Model of the go-indexer-solana-starter ingestion pipeline:              *)
(* internal/indexer (Start loop, the two program pipelines, Shutdown),     *)
(* internal/decoder (binary event codec and counter log parser),           *)
(* internal/processor (EventProcessor), internal/repository (Mongo store)  *)
(* and pkg/solana (ledger client).                                         *)
(***************************************************************************)
EXTENDS Integers, Sequences, FiniteSets, TLC

(***************************************************************************)
(* Bounds of the model.                                                    *)
(***************************************************************************)
MaxTx == 2         \* transactions the ledger holds, over both programs
MaxTicks == 2      \* ticker firings the Start loop serves
BatchSize == 2     \* cfg.BatchSize, the page limit the pipelines ask for
UintBits == 3      \* width the 64-bit unsigned integers are scaled to

Programs == {"starter", "counter"}

\* a nil *solana.Signature
NoSig == 0

\* the k-th transaction of program p (k = 1 is the oldest)
Sig(p, k) == IF p = "starter" THEN 2 * k ELSE 2 * k + 1

SlotOf(sig) == sig \div 2

(***************************************************************************)
(* internal/models: the closed enumeration of event types.                 *)
(***************************************************************************)
StarterEventTypes ==
    { "TokensMintedEvent", "TokensTransferredEvent", "TokensBurnedEvent",
      "DelegateApprovedEvent", "DelegateRevokedEvent", "TokenAccountClosedEvent",
      "TokenAccountFrozenEvent", "TokenAccountThawedEvent",
      "UserAccountCreatedEvent", "UserAccountUpdatedEvent", "UserAccountClosedEvent",
      "ConfigUpdatedEvent", "ProgramPausedEvent", "NftCollectionCreatedEvent",
      "NftMintedEvent", "NftListedEvent", "NftSoldEvent", "NftListingCancelledEvent",
      "NftOfferCreatedEvent", "NftOfferAcceptedEvent" }

CounterEventTypes ==
    { "CounterInitializedEvent", "CounterIncrementedEvent", "CounterDecrementedEvent",
      "CounterAddedEvent", "CounterResetEvent", "CounterPaymentReceivedEvent" }

EventType == StarterEventTypes \cup CounterEventTypes

(***************************************************************************)
(* internal/decoder: the binary event codec.  A "Program data:" line is    *)
(* kept as the facts the codec looks at: whether the text after the prefix *)
(* is valid base64, the number of decoded bytes, and the event name whose  *)
(* discriminator the first 8 bytes are ("unknown" when they are none).     *)
(***************************************************************************)
DataLine(b64, disc, len) ==
    [prefix |-> "Program data:", b64 |-> b64, disc |-> disc, len |-> len]

\* the keys of the map built by makeDiscriminatorMap
makeDiscriminatorMap == StarterEventTypes

\* bytes of the payload each implemented decoder reads (32-byte keys, 8-byte
\* integers); NftMintedEvent with two empty strings
PayloadSize(eventType) ==
    CASE eventType \in {"TokensMintedEvent", "TokensBurnedEvent"} -> 32 + 32 + 8 + 8
      [] eventType = "TokensTransferredEvent" -> 32 + 32 + 32 + 8 + 8
      [] eventType = "UserAccountCreatedEvent" -> 32 + 32 + 8
      [] eventType = "UserAccountUpdatedEvent" -> 32 + 8 + 8 + 8
      [] eventType = "ConfigUpdatedEvent" -> 32 + 8 + 8 + 8
      [] eventType = "NftMintedEvent" -> 32 + 32 + 32 + 4 + 4 + 8
      [] OTHER -> 0

\* the event types DecodeEvent has a decoder for
Decodable ==
    { "TokensMintedEvent", "TokensTransferredEvent", "TokensBurnedEvent",
      "UserAccountCreatedEvent", "UserAccountUpdatedEvent", "ConfigUpdatedEvent",
      "NftMintedEvent" }

\* ParseProgramData: the decoded frames of the "Program data:" lines, in line
\* order; lines that are not valid base64 are dropped
ParseProgramData(logs) ==
    SelectSeq(logs, LAMBDA l : l.prefix = "Program data:" /\ l.b64)

\* DecodeEvent: err, or the event type with a payload whose dynamic type is a
\* pointer to the event struct (decodeTokensMinted and the others return
\* *models.XxxEvent)
DecodeEvent(data) ==
    IF data.len < 8
    THEN [err |-> TRUE, eventType |-> "", dyn |-> "nil"]
    ELSE IF data.disc \notin makeDiscriminatorMap
    THEN [err |-> TRUE, eventType |-> "", dyn |-> "nil"]
    ELSE IF data.disc \notin Decodable
    THEN [err |-> TRUE, eventType |-> data.disc, dyn |-> "nil"]
    ELSE IF data.len - 8 < PayloadSize(data.disc)
    THEN [err |-> TRUE, eventType |-> data.disc, dyn |-> "nil"]
    ELSE [err |-> FALSE, eventType |-> data.disc, dyn |-> "pointer"]

(***************************************************************************)
(* internal/decoder: the counter log parser.  A "Program log:" line is     *)
(* kept as the pattern its message matches ("other" when it matches none)  *)
(* and the texts a and b standing where the pattern has its numbers.  A    *)
(* number text is a decimal numeral of a 64-bit value ("num"), a run of    *)
(* digits too long for 64 bits ("big"), or not a run of digits ("nan").    *)
(* uint64 is modelled UintBits wide.                                       *)
(***************************************************************************)
Uint64Max == 2^UintBits - 1

\* uint64 subtraction and addition
Sub64(x, y) == (x - y) % 2^UintBits
Add64(x, y) == (x + y) % 2^UintBits

Num(v) == [kind |-> "num", val |-> v]
BigNum == [kind |-> "big", val |-> 0]
NotNum == [kind |-> "nan", val |-> 0]

LogLine(pat, a, b) == [prefix |-> "Program log:", pat |-> pat, a |-> a, b |-> b]

\* solana.PublicKey{} and a nil *solana.PublicKey; a nil *uint64
ZeroKey == 0
NilKey == -1
NilU64 == -1

\* strconv.ParseUint(s, 10, 64): the value and whether err is nil; out of
\* range gives the largest value and ErrRange
ParseUint(text) ==
    CASE text.kind = "num" -> [val |-> text.val, ok |-> TRUE]
      [] text.kind = "big" -> [val |-> Uint64Max, ok |-> FALSE]
      [] OTHER -> [val |-> 0, ok |-> FALSE]

\* extractNumber: nil when ParseUint fails
extractNumber(text) ==
    LET r == ParseUint(text) IN IF r.ok THEN r.val ELSE NilU64

\* the regexps of the "Added" and "Payment" lines match runs of digits
MatchesDigits(text) == text.kind \in {"num", "big"}

CounterAction(type, counter, old, new, added, payer, feeCollector, payment) ==
    [Type |-> type, Counter |-> counter, Authority |-> NilKey, OldValue |-> old,
     NewValue |-> new, AddedValue |-> added, Payer |-> payer,
     FeeCollector |-> feeCollector, Payment |-> payment]

\* the nil *CounterAction
NilAction == CounterAction("", ZeroKey, NilU64, NilU64, NilU64, NilKey, NilKey, NilU64)

\* the texts a message of each pattern is made of, the text it starts with
\* first, with the numerals a and b of the line after the first and the last:
\* "Payment of <a> lamports received. Counter incremented to: <b>"
MessageParts ==
    [initialized |-> <<"Counter initialized">>,
     incremented |-> <<"Counter incremented to: ">>,
     decremented |-> <<"Counter decremented to: ">>,
     added       |-> <<"Added ", " to counter. New value: ">>,
     reset       |-> <<"Counter reset">>,
     payment     |-> <<"Payment of ", " lamports received. Counter incremented to: ">>,
     other       |-> <<"Instruction: Increment">>]

\* the substrings of the message parts that parseLogMessage looks for
Substrings(part) ==
    CASE part = " to counter. New value: " -> {part, "to counter"}
      [] part = " lamports received. Counter incremented to: " ->
             {part, "lamports received", "Counter incremented to: "}
      [] OTHER -> {part}

\* msg == s: the message is the text s and nothing else
MsgIs(line, s) ==
    /\ MessageParts[line.pat] = <<s>>
    /\ line.pat \in {"initialized", "reset", "other"}

\* strings.HasPrefix with a test that finds s anywhere in the message
HasPrefixAnywhere(line, s) ==
    \E k \in DOMAIN MessageParts[line.pat] : s \in Substrings(MessageParts[line.pat][k])

\* strings.HasPrefix(msg, s)
HasPrefix(line, s) == s \in Substrings(MessageParts[line.pat][1])

\* strings.Contains(msg, s)
Contains(line, s) ==
    \E k \in DOMAIN MessageParts[line.pat] : s \in Substrings(MessageParts[line.pat][k])

\* parseLogMessage: the action of the line, or NilAction.  Each if of the
\* function is tried in turn; one whose number does not parse or whose
\* regexp does not match falls through to the next.
parseLogMessage(line, accounts) ==
    LET counter == IF Len(accounts) > 0 THEN accounts[1] ELSE ZeroKey
        incremented ==
            LET newValue == extractNumber(line.a)
            IN  IF HasPrefix(line, "Counter incremented to: ") /\ newValue # NilU64
                THEN CounterAction("CounterIncrementedEvent", counter,
                                   Sub64(newValue, 1), newValue, NilU64,
                                   NilKey, NilKey, NilU64)
                ELSE NilAction
        decremented ==
            LET newValue == extractNumber(line.a)
            IN  IF HasPrefix(line, "Counter decremented to: ") /\ newValue # NilU64
                THEN CounterAction("CounterDecrementedEvent", counter,
                                   Add64(newValue, 1), newValue, NilU64,
                                   NilKey, NilKey, NilU64)
                ELSE NilAction
        added ==
            IF /\ HasPrefix(line, "Added ") /\ Contains(line, "to counter")
               /\ Contains(line, " to counter. New value: ")
               /\ MatchesDigits(line.a) /\ MatchesDigits(line.b)
            THEN LET addedValue == ParseUint(line.a).val
                     newVal == ParseUint(line.b).val
                 IN  CounterAction("CounterAddedEvent", counter,
                                   Sub64(newVal, addedValue), newVal, addedValue,
                                   NilKey, NilKey, NilU64)
            ELSE NilAction
        payment ==
            IF /\ HasPrefix(line, "Payment of ") /\ Contains(line, "lamports received")
               /\ Contains(line, " lamports received. Counter incremented to: ")
               /\ MatchesDigits(line.a) /\ MatchesDigits(line.b)
            THEN LET paid == ParseUint(line.a).val
                     newCount == ParseUint(line.b).val
                     payer == IF Len(accounts) > 1 THEN accounts[2] ELSE NilKey
                     feeCollector == IF Len(accounts) > 2 THEN accounts[3] ELSE NilKey
                 IN  CounterAction("CounterPaymentReceivedEvent", counter, NilU64,
                                   newCount, NilU64, payer, feeCollector, paid)
            ELSE NilAction
    IN  IF line.prefix # "Program log:" THEN NilAction
        ELSE IF MsgIs(line, "Counter initialized")
        THEN CounterAction("CounterInitializedEvent", counter, NilU64, 0, NilU64,
                           NilKey, NilKey, NilU64)
        ELSE IF incremented # NilAction THEN incremented
        ELSE IF decremented # NilAction THEN decremented
        ELSE IF added # NilAction THEN added
        ELSE IF MsgIs(line, "Counter reset")
        THEN CounterAction("CounterResetEvent", counter, NilU64, 0, NilU64,
                           NilKey, NilKey, NilU64)
        ELSE payment

\* ParseLogs with the actions appended in front of the ones before
RECURSIVE ParseLogsPrepends(_, _)
ParseLogsPrepends(logs, accounts) ==
    IF logs = <<>> THEN <<>>
    ELSE LET l == Head(logs)
             action == IF l.prefix = "Program log:" THEN parseLogMessage(l, accounts)
                       ELSE NilAction
         IN  IF action = NilAction THEN ParseLogsPrepends(Tail(logs), accounts)
             ELSE ParseLogsPrepends(Tail(logs), accounts) \o <<action>>

RECURSIVE ParseLogs(_, _)
\* ParseLogs: the actions of the lines that contain "Program log:", in line order
ParseLogs(logs, accounts) ==
    IF logs = <<>> THEN <<>>
    ELSE LET l == Head(logs)
             action == IF l.prefix = "Program log:" THEN parseLogMessage(l, accounts)
                       ELSE NilAction
         IN  IF action = NilAction THEN ParseLogs(Tail(logs), accounts)
             ELSE <<action>> \o ParseLogs(Tail(logs), accounts)

\* valueOrDefault that returns the default whatever the pointer holds
valueOrDefaultDropsValue(ptr, defaultValue) == defaultValue

valueOrDefault(ptr, defaultValue) == IF ptr # NilU64 THEN ptr ELSE defaultValue

keyOrDefault(ptr) == IF ptr # NilKey THEN ptr ELSE ZeroKey

\* convertCounterActionToEvent: a models.CounterXxxEvent struct value with
\* the fields of its type, or nil
convertCounterActionToEvent(action) ==
    CASE action.Type = "CounterInitializedEvent" ->
           [dyn |-> "value",
            fields |-> [counter |-> action.Counter,
                        authority |-> keyOrDefault(action.Authority),
                        initial_count |-> valueOrDefault(action.NewValue, 0)]]
      [] action.Type = "CounterIncrementedEvent" ->
           [dyn |-> "value",
            fields |-> [counter |-> action.Counter,
                        old_value |-> valueOrDefault(action.OldValue, 0),
                        new_value |-> valueOrDefault(action.NewValue, 0)]]
      [] action.Type = "CounterDecrementedEvent" ->
           [dyn |-> "value",
            fields |-> [counter |-> action.Counter,
                        old_value |-> valueOrDefault(action.OldValue, 0),
                        new_value |-> valueOrDefault(action.NewValue, 0)]]
      [] action.Type = "CounterAddedEvent" ->
           [dyn |-> "value",
            fields |-> [counter |-> action.Counter,
                        old_value |-> valueOrDefault(action.OldValue, 0),
                        added_value |-> valueOrDefault(action.AddedValue, 0),
                        new_value |-> valueOrDefault(action.NewValue, 0)]]
      [] action.Type = "CounterResetEvent" ->
           [dyn |-> "value",
            fields |-> [counter |-> action.Counter,
                        authority |-> keyOrDefault(action.Authority),
                        old_value |-> valueOrDefault(action.OldValue, 0)]]
      [] action.Type = "CounterPaymentReceivedEvent" ->
           [dyn |-> "value",
            fields |-> [counter |-> action.Counter,
                        payer |-> keyOrDefault(action.Payer),
                        fee_collector |-> keyOrDefault(action.FeeCollector),
                        payment |-> valueOrDefault(action.Payment, 0),
                        new_count |-> valueOrDefault(action.NewValue, 0)]]
      [] OTHER -> [dyn |-> "nil", fields |-> <<>>]

(***************************************************************************)
(* internal/repository: the Mongo event collection.  The store is the      *)
(* sequence of inserted documents.  env carries what the insert meets:     *)
(* indexes (the unique index exists), down (the client is disconnected or  *)
(* the context is cancelled), fault (the driver answers with a transient   *)
(* error).                                                                 *)
(***************************************************************************)
\* CreateIndexes: the key of the one unique index
UniqueIndexKey(doc) == <<doc.signature>>

\* InsertOne into a collection that returns the newest document first
InsertOnePrepends(st, doc, env) ==
    IF env.down \/ env.fault
    THEN [store |-> st, err |-> "other"]
    ELSE IF env.indexes
            /\ \E i \in DOMAIN st : UniqueIndexKey(st[i]) = UniqueIndexKey(doc)
    THEN [store |-> st, err |-> "duplicate"]
    ELSE [store |-> <<doc>> \o st, err |-> "none"]

\* collection.InsertOne under the indexes of CreateIndexes
InsertOne(st, doc, env) ==
    IF env.down \/ env.fault
    THEN [store |-> st, err |-> "other"]
    ELSE IF env.indexes
            /\ \E i \in DOMAIN st : UniqueIndexKey(st[i]) = UniqueIndexKey(doc)
    THEN [store |-> st, err |-> "duplicate"]
    ELSE [store |-> Append(st, doc), err |-> "none"]

\* MongoRepository.SaveEvent: every InsertOne error is wrapped and returned
SaveEvent(st, event, env) ==
    LET r == InsertOne(st, event, env)
    IN  [store |-> r.store,
         ret   |-> IF r.err # "none" THEN "error" ELSE "ok",
         cause |-> r.err]

(***************************************************************************)
(* internal/processor: EventProcessor.                                     *)
(***************************************************************************)
\* the event types ProcessEvent has a case for
Handled ==
    { "TokensMintedEvent", "TokensTransferredEvent", "TokensBurnedEvent",
      "UserAccountCreatedEvent", "UserAccountUpdatedEvent", "ConfigUpdatedEvent",
      "NftMintedEvent" } \cup CounterEventTypes

\* the type assertion data.(models.XxxEvent) of the processXxx handlers: it
\* holds for a struct value and panics for anything else
AssertsValue(dyn) == dyn = "value"

\* ProcessEvent of a processor bound to the starter program whatever the
\* pipeline it serves
ProcessEventSharedProgram(programID, st, signature, slot, eventType, eventData, ordinal, env) ==
    LET baseEvent == [event_type |-> eventType, signature |-> signature,
                      slot |-> slot, program_id |-> "starter", ordinal |-> ordinal,
                      data |-> eventData.fields]
    IN  IF eventType \notin Handled
        THEN [panicked |-> FALSE, store |-> st, ret |-> "ok", put |-> <<>>]
        ELSE IF ~AssertsValue(eventData.dyn)
        THEN [panicked |-> TRUE, store |-> st, ret |-> "panic", put |-> <<>>]
        ELSE LET s == SaveEvent(st, baseEvent, env)
             IN  [panicked |-> FALSE, store |-> s.store, ret |-> s.ret,
                  put |-> <<[rec |-> baseEvent, cause |-> s.cause, ret |-> s.ret,
                             had |-> \E i \in DOMAIN st : st[i] = baseEvent]>>]

\* ProcessEvent with an envelope whose EventType is left unset
ProcessEventUntyped(programID, st, signature, slot, eventType, eventData, ordinal, env) ==
    LET baseEvent == [event_type |-> "", signature |-> signature,
                      slot |-> slot, program_id |-> programID, ordinal |-> ordinal,
                      data |-> eventData.fields]
    IN  IF eventType \notin Handled
        THEN [panicked |-> FALSE, store |-> st, ret |-> "ok", put |-> <<>>]
        ELSE IF ~AssertsValue(eventData.dyn)
        THEN [panicked |-> TRUE, store |-> st, ret |-> "panic", put |-> <<>>]
        ELSE LET s == SaveEvent(st, baseEvent, env)
             IN  [panicked |-> FALSE, store |-> s.store, ret |-> s.ret,
                  put |-> <<[rec |-> baseEvent, cause |-> s.cause, ret |-> s.ret,
                             had |-> \E i \in DOMAIN st : st[i] = baseEvent]>>]

\* ProcessEvent whose default case saves the envelope
ProcessEventSavesUnknown(programID, st, signature, slot, eventType, eventData, ordinal, env) ==
    LET baseEvent == [event_type |-> eventType, signature |-> signature,
                      slot |-> slot, program_id |-> programID, ordinal |-> ordinal,
                      data |-> eventData.fields]
    IN  IF eventType \in Handled /\ ~AssertsValue(eventData.dyn)
        THEN [panicked |-> TRUE, store |-> st, ret |-> "panic", put |-> <<>>]
        ELSE LET s == SaveEvent(st, baseEvent, env)
             IN  [panicked |-> FALSE, store |-> s.store, ret |-> s.ret,
                  put |-> <<[rec |-> baseEvent, cause |-> s.cause, ret |-> s.ret,
                             had |-> \E i \in DOMAIN st : st[i] = baseEvent]>>]

\* ProcessEvent: builds the envelope and dispatches on the event type; the
\* handler puts the envelope into the event struct and saves it.
\* ordinal (the position of the event in the codec's output) is not a field
\* of BaseEvent; the model carries it to tell the events of one transaction
\* apart.
ProcessEvent(programID, st, signature, slot, eventType, eventData, ordinal, env) ==
    LET baseEvent == [event_type |-> eventType, signature |-> signature,
                      slot |-> slot, program_id |-> programID, ordinal |-> ordinal,
                      data |-> eventData.fields]
    IN  IF eventType \notin Handled
        THEN [panicked |-> FALSE, store |-> st, ret |-> "ok", put |-> <<>>]
        ELSE IF ~AssertsValue(eventData.dyn)
        THEN [panicked |-> TRUE, store |-> st, ret |-> "panic", put |-> <<>>]
        ELSE LET s == SaveEvent(st, baseEvent, env)
             IN  [panicked |-> FALSE, store |-> s.store, ret |-> s.ret,
                  put |-> <<[rec |-> baseEvent, cause |-> s.cause, ret |-> s.ret,
                             had |-> \E i \in DOMAIN st : st[i] = baseEvent]>>]

(***************************************************************************)
(* internal/indexer: processing one transaction.  fetch is the answer of   *)
(* client.GetTransaction ("err", "nil" for a missing transaction or one    *)
(* without meta, "tx"), logs the log messages of the transaction, env what *)
(* the inserts of the transaction meet.  The result has the store, the     *)
(* error returned, whether a panic unwound the call, the number of events  *)
(* the codec emitted and the inserts attempted.                            *)
(***************************************************************************)
TxResult(st, err, panicked, events, puts) ==
    [store |-> st, err |-> err, panicked |-> panicked, events |-> events, puts |-> puts]

RECURSIVE StarterEvents(_, _, _, _, _)
\* the loop over programDataList of processStarterTransaction
StarterEvents(frames, i, acc, signature, env) ==
    IF i > Len(frames) \/ acc.panicked THEN acc
    ELSE LET d == DecodeEvent(frames[i])
         IN  IF d.err
             THEN StarterEvents(frames, i + 1, acc, signature, env)
             ELSE LET r == ProcessEvent("starter", acc.store, signature, SlotOf(signature),
                                        d.eventType, [dyn |-> d.dyn, fields |-> <<>>],
                                        i - 1, env)
                  IN  StarterEvents(frames, i + 1,
                          TxResult(r.store, FALSE, r.panicked, acc.events + 1,
                                   acc.puts \o r.put),
                          signature, env)

processStarterTransaction(st, signature, fetch, logs, env) ==
    IF fetch = "err" THEN TxResult(st, TRUE, FALSE, 0, <<>>)
    ELSE IF fetch = "nil" THEN TxResult(st, FALSE, FALSE, 0, <<>>)
    ELSE IF Len(logs) = 0 THEN TxResult(st, FALSE, FALSE, 0, <<>>)
    ELSE StarterEvents(ParseProgramData(logs), 1, TxResult(st, FALSE, FALSE, 0, <<>>),
                       signature, env)

RECURSIVE CounterEvents(_, _, _, _, _)
\* the loop over actions of processCounterTransaction
CounterEvents(actions, i, acc, signature, env) ==
    IF i > Len(actions) \/ acc.panicked THEN acc
    ELSE LET r == ProcessEvent("counter", acc.store, signature, SlotOf(signature),
                               actions[i].Type, convertCounterActionToEvent(actions[i]),
                               i - 1, env)
         IN  CounterEvents(actions, i + 1,
                 TxResult(r.store, FALSE, r.panicked, acc.events + 1, acc.puts \o r.put),
                 signature, env)

processCounterTransaction(st, signature, fetch, logs, accounts, env) ==
    IF fetch = "err" THEN TxResult(st, TRUE, FALSE, 0, <<>>)
    ELSE IF fetch = "nil" THEN TxResult(st, FALSE, FALSE, 0, <<>>)
    ELSE IF Len(logs) = 0 THEN TxResult(st, FALSE, FALSE, 0, <<>>)
    ELSE CounterEvents(ParseLogs(logs, accounts), 1, TxResult(st, FALSE, FALSE, 0, <<>>),
                       signature, env)

(***************************************************************************)
(* pkg/solana: the ledger client, and the ledger behind it.  The ledger    *)
(* keeps, per program, the logs of its transactions, oldest first; the     *)
(* k-th has signature Sig(p, k).                                           *)
(***************************************************************************)
\* the log messages a transaction of the starter program may carry
StarterLogs ==
    { <<DataLine(TRUE, "TokensMintedEvent", 8 + 80)>>,
      <<DataLine(TRUE, "unknown", 16), DataLine(TRUE, "TokensMintedEvent", 8 + 40),
        DataLine(FALSE, "TokensMintedEvent", 0), DataLine(TRUE, "unknown", 4),
        DataLine(TRUE, "DelegateApprovedEvent", 8 + 80)>>,
      <<DataLine(TRUE, "TokensMintedEvent", 8 + 40),
        DataLine(TRUE, "TokensMintedEvent", 8 + 80)>> }

\* the log messages a transaction of the counter program may carry
CounterLogs ==
    { <<LogLine("other", NotNum, NotNum)>>,
      <<LogLine("incremented", Num(1), NotNum), LogLine("other", NotNum, NotNum),
        LogLine("added", Num(2), Num(3))>> }

\* txObj.Message.AccountKeys of the transactions the ledger holds
AccountKeys == <<1, 2, 3>>

LogsOf(p) == IF p = "starter" THEN StarterLogs ELSE CounterLogs

\* the getSignaturesForAddress RPC: the signatures of the program, newest
\* first, older than opts.before, newer than opts.until, at most opts.limit
\* of them; a field left unset (NoSig, 0) does not restrict the answer
RECURSIVE NewestFirst(_, _)
NewestFirst(p, n) == IF n = 0 THEN <<>> ELSE <<Sig(p, n)>> \o NewestFirst(p, n - 1)

RpcSignatures(p, n, opts) ==
    LET inWindow == SelectSeq(NewestFirst(p, n),
                       LAMBDA s : /\ (opts.before # NoSig => s < opts.before)
                                  /\ (opts.until # NoSig => s > opts.until))
    IN  IF opts.limit > 0 /\ Len(inWindow) > opts.limit
        THEN SubSeq(inWindow, 1, opts.limit)
        ELSE inWindow

\* Client.GetSignaturesForAddress: the options the RPC request carries.  opts
\* is filled from limit, before and until, but the request is sent without it.
RpcRequest(limit, before, until) ==
    [limit |-> 0, before |-> NoSig, until |-> NoSig]

\* the arguments the pipelines pass to Client.GetSignaturesForAddress:
\* (ctx, programID, i.cfg.BatchSize, lastSig, nil)
PageCall(lastSig) ==
    [limit |-> BatchSize, before |-> lastSig, until |-> NoSig]

(***************************************************************************)
(* internal/config.  The environment gives each variable a text: os.Getenv *)
(* returns "" for a variable that is unset or set to nothing.  The text of *)
(* an integer setting is kept as what fmt.Sscanf("%d") makes of it: empty, *)
(* a decimal numeral ("int"), a numeral followed by other characters       *)
(* ("intjunk", such as "5x") or a text that does not start with a numeral  *)
(* ("junk").  uint64 is modelled UintBits wide.                            *)
(***************************************************************************)
NoText == [kind |-> "empty", val |-> 0]
IntText(n) == [kind |-> "int", val |-> n]
IntPrefixText(n) == [kind |-> "intjunk", val |-> n]
JunkText == [kind |-> "junk", val |-> 0]

DatabaseTypeMongo == "mongodb"
DatabaseTypePostgres == "postgres"

\* time.Millisecond, in nanoseconds
Millisecond == 1000000

\* fmt.Sscanf(value, "%d", &intVal): scans the leading numeral and leaves
\* the rest of the input alone; err is nil when a numeral was scanned
Sscanf(value) ==
    IF value.kind \in {"int", "intjunk"}
    THEN [intVal |-> value.val, ok |-> TRUE]
    ELSE [intVal |-> 0, ok |-> FALSE]

getEnvOrDefault(e, key, defaultValue) ==
    IF e[key] # "" THEN e[key] ELSE defaultValue

getEnvIntOrDefault(e, key, defaultValue) ==
    IF e[key] # NoText /\ Sscanf(e[key]).ok
    THEN Sscanf(e[key]).intVal
    ELSE defaultValue

\* Config.Validate: the error returned, "none" for nil
Validate(c) ==
    CASE c.SolanaRPCURL = "" -> "SOLANA_RPC_URL is required"
      [] c.StarterProgramID = "" -> "STARTER_PROGRAM_ID is required"
      [] c.BatchSize <= 0 -> "BATCH_SIZE must be positive"
      [] c.MaxConcurrency <= 0 -> "MAX_CONCURRENCY must be positive"
      [] c.ServerPort <= 0 \/ c.ServerPort > 65535 ->
             "SERVER_PORT must be between 1 and 65535"
      [] c.DatabaseType # DatabaseTypeMongo /\ c.DatabaseType # DatabaseTypePostgres ->
             "DATABASE_TYPE must be 'mongodb' or 'postgres'"
      [] c.DatabaseURL = "" -> "DATABASE_URL is required"
      [] c.DatabaseName = "" -> "DATABASE_NAME is required"
      [] OTHER -> "none"

\* the Config that config.Load builds from the environment
LoadedConfig(e) ==
    [SolanaRPCURL     |-> getEnvOrDefault(e, "SOLANA_RPC_URL", "https://api.devnet.solana.com"),
     SolanaWSURL      |-> getEnvOrDefault(e, "SOLANA_WS_URL", "wss://api.devnet.solana.com"),
     StarterProgramID |-> getEnvOrDefault(e, "STARTER_PROGRAM_ID",
                                          "gARh1g6reuvsAHB7DXqiuYzzyiJeoiJmtmCpV8Y5uWC"),
     CounterProgramID |-> getEnvOrDefault(e, "COUNTER_PROGRAM_ID",
                                          "CounzVsCGF4VzNkAwePKC9mXr6YWiFYF4kLW6YdV8Cc"),
     StartSlot        |-> getEnvIntOrDefault(e, "START_SLOT", 0) % 2^UintBits,
     PollInterval     |-> getEnvIntOrDefault(e, "POLL_INTERVAL_MS", 1000) * Millisecond,
     BatchSize        |-> getEnvIntOrDefault(e, "BATCH_SIZE", 10),
     MaxConcurrency   |-> getEnvIntOrDefault(e, "MAX_CONCURRENCY", 5),
     DatabaseType     |-> getEnvOrDefault(e, "DATABASE_TYPE", "mongodb"),
     DatabaseURL      |-> getEnvOrDefault(e, "DATABASE_URL", "mongodb://localhost:27017"),
     DatabaseName     |-> getEnvOrDefault(e, "DATABASE_NAME", "solana_indexer"),
     ServerPort       |-> getEnvIntOrDefault(e, "SERVER_PORT", 8080),
     LogLevel         |-> getEnvOrDefault(e, "LOG_LEVEL", "info")]

\* a nil *Config
NoConfig ==
    [SolanaRPCURL |-> "", SolanaWSURL |-> "", StarterProgramID |-> "",
     CounterProgramID |-> "", StartSlot |-> 0, PollInterval |-> 0, BatchSize |-> 0,
     MaxConcurrency |-> 0, DatabaseType |-> "", DatabaseURL |-> "",
     DatabaseName |-> "", ServerPort |-> 0, LogLevel |-> ""]

\* config.Load: the Config and the error
Load(e) ==
    LET cfg == LoadedConfig(e)
        err == Validate(cfg)
    IN  IF err # "none"
        THEN [cfg |-> NoConfig, err |-> "invalid configuration"]
        ELSE [cfg |-> cfg, err |-> "none"]

(***************************************************************************)
(* internal/indexer: New, and internal/repository: the PostgreSQL          *)
(* repository.  dial tells whether the store answers the connection        *)
(* attempt of NewMongoRepository.                                          *)
(***************************************************************************)
\* solana.PublicKeyFromBase58 succeeds: the program ids the model meets
IsPublicKey(s) ==
    s \in {"gARh1g6reuvsAHB7DXqiuYzzyiJeoiJmtmCpV8Y5uWC",
           "CounzVsCGF4VzNkAwePKC9mXr6YWiFYF4kLW6YdV8Cc"}

\* indexer.New: the repository the Indexer holds and the error
New(cfg, dial) ==
    CASE ~IsPublicKey(cfg.StarterProgramID) ->
             [repo |-> "none", err |-> "parse starter program ID"]
      [] ~IsPublicKey(cfg.CounterProgramID) ->
             [repo |-> "none", err |-> "parse counter program ID"]
      [] cfg.DatabaseType = DatabaseTypeMongo ->
             IF dial THEN [repo |-> DatabaseTypeMongo, err |-> "none"]
                     ELSE [repo |-> "none", err |-> "create mongo repository"]
      [] OTHER -> [repo |-> "none", err |-> "unsupported database type"]

\* PostgresRepository.SaveEvent
PostgresSaveEvent(st, event) ==
    [store |-> st, ret |-> "error",
     cause |-> "postgres repository not fully implemented yet"]

\* repo.SaveEvent through the Repository interface
RepositorySaveEvent(repo, st, event, env) ==
    IF repo = DatabaseTypePostgres
    THEN PostgresSaveEvent(st, event)
    ELSE SaveEvent(st, event, env)

(***************************************************************************)
(* State.                                                                  *)
(***************************************************************************)
VARIABLES
    pc,            \* position of the goroutine that runs Start
    ticks,         \* ticker firings served so far
    isRunning,     \* Indexer.isRunning
    shutdownOnce,  \* Indexer.shutdownOnce has run
    closed,        \* number of repo.Close calls
    cancelled,     \* the context passed to Start is cancelled
    indexes,       \* the unique index of CreateIndexes exists
    cursor,        \* lastStarterSig / lastCounterSig
    page,          \* sigs, the page of the pipeline call in progress
    idx,           \* position of the range loop in the page
    store,         \* the documents of the events collection, in insertion order
    ledger,        \* per program, the logs of its transactions, oldest first
    call,          \* per pipeline, the arguments of its last GetSignaturesForAddress call
    rpcReq,        \* per pipeline, the options of the last RPC request sent for it
    outcome,       \* per pipeline, how its last page request ended
    tickErr,       \* a transaction of the pipeline call in progress returned an error
    loops,         \* Start calls that went past the running check and have not returned
    txres,         \* the transaction the range loop processed last, and what happened to it
    parseIn,       \* counter parser on its own: the log line and account keys given
    parseOut,      \* counter parser on its own: the actions parsed and the records stored
    environ,       \* start-up on its own: the process environment, per variable name
    boot,          \* start-up on its own: how far it came, its error, the Config, the store
    procIn,        \* event processor on its own: the arguments of a ProcessEvent call
    procOut        \* event processor on its own: what the call returned and the store after

indexerVars == <<pc, ticks, isRunning, shutdownOnce, closed, cancelled, indexes, cursor,
                 page, idx, store, ledger, call, rpcReq, outcome, tickErr, txres, loops>>

parserVars == <<parseIn, parseOut>>

configVars == <<environ, boot>>

processorVars == <<procIn, procOut>>

unitVars == <<parserVars, configVars, processorVars>>

vars == <<indexerVars, unitVars>>

PcSigs == [starter |-> "starterSigs", counter |-> "counterSigs"]
PcTx == [starter |-> "starterTx", counter |-> "counterTx"]
PcAdvance == [starter |-> "starterAdvance", counter |-> "counterAdvance"]
\* Start runs processStarterSignatures, then processCounterSignatures, then selects again
PcAfter == [starter |-> "counterSigs", counter |-> "select"]

NoCall == [limit |-> 0, before |-> NoSig, until |-> NoSig]
NoTx == [p |-> "none", sig |-> NoSig, fetch |-> "none", err |-> FALSE,
         panicked |-> FALSE, events |-> 0, puts |-> <<>>]

\* the Indexer after NewIndexer
NewIndexer ==
    /\ pc = "idle"
    /\ ticks = 0
    /\ isRunning = FALSE
    /\ shutdownOnce = FALSE
    /\ closed = 0
    /\ cancelled = FALSE
    /\ indexes = FALSE
    /\ cursor = [p \in Programs |-> NoSig]
    /\ page = <<>>
    /\ idx = 0
    /\ store = <<>>
    /\ ledger = [p \in Programs |-> <<>>]
    /\ call = [p \in Programs |-> NoCall]
    /\ rpcReq = [p \in Programs |-> NoCall]
    /\ outcome = [p \in Programs |-> "none"]
    /\ tickErr = FALSE
    /\ txres = NoTx
    /\ loops = 0

NoLine == [line |-> LogLine("other", NotNum, NotNum), accounts |-> <<>>]
NotParsed == [done |-> FALSE, actions |-> <<>>, store |-> <<>>]

\* no environment variable set; config.Load not called
NoEnv ==
    [SOLANA_RPC_URL |-> "", SOLANA_WS_URL |-> "", STARTER_PROGRAM_ID |-> "",
     COUNTER_PROGRAM_ID |-> "", START_SLOT |-> NoText, POLL_INTERVAL_MS |-> NoText,
     BATCH_SIZE |-> NoText, MAX_CONCURRENCY |-> NoText, DATABASE_TYPE |-> "",
     DATABASE_URL |-> "", DATABASE_NAME |-> "", SERVER_PORT |-> NoText,
     LOG_LEVEL |-> ""]
NotLoaded == [stage |-> "env", err |-> "none", cfg |-> NoConfig, repo |-> "none",
              saved |-> <<>>]

NoEvent == [src |-> "none", programID |-> "starter", eventType |-> "none",
            dyn |-> "value", fields |-> <<>>, st |-> <<>>]
NotProcessed == [done |-> FALSE, ret |-> "none", panicked |-> FALSE, st |-> <<>>,
                 put |-> <<>>]

Init ==
    /\ NewIndexer
    /\ parseIn = NoLine
    /\ parseOut = NotParsed
    /\ environ = NoEnv
    /\ boot = NotLoaded
    /\ procIn = NoEvent
    /\ procOut = NotProcessed

(***************************************************************************)
(* The environment: the ledger commits a transaction, the context is       *)
(* cancelled.  The indexer reads the ledger only inside a tick, and a tick  *)
(* asks for the signatures of each program once, so commits are taken      *)
(* between ticks.                                                          *)
(***************************************************************************)
NewTx ==
    /\ pc \in {"idle", "select"}
    /\ \E p \in Programs : \E logs \in LogsOf(p) :
          /\ Len(ledger["starter"]) + Len(ledger["counter"]) < MaxTx
          /\ ledger' = [ledger EXCEPT ![p] = Append(@, logs)]
    /\ UNCHANGED <<pc, ticks, isRunning, shutdownOnce, closed, cancelled, indexes,
                   cursor, page, idx, store, call, rpcReq, outcome, tickErr, txres>>
    /\ UNCHANGED <<loops, unitVars>>

Cancel ==
    /\ ~cancelled
    /\ pc # "panicked"
    /\ cancelled' = TRUE
    /\ UNCHANGED <<pc, ticks, isRunning, shutdownOnce, closed, indexes, cursor,
                   page, idx, store, ledger, call, rpcReq, outcome, tickErr, txres>>
    /\ UNCHANGED <<loops, unitVars>>

(***************************************************************************)
(* internal/indexer: Start.                                                *)
(***************************************************************************)
\* Start, up to the unlock: refuses when the indexer is marked running.  The
\* call may come from any goroutine.  pc follows the goroutine of the first
\* call that was let through; a call let through while that goroutine is in
\* its loop starts a loop of its own on the same Indexer, which loops counts.
Start ==
    /\ pc # "panicked"
    /\ IF isRunning
       THEN UNCHANGED <<pc, isRunning, loops>>
       ELSE /\ isRunning' = TRUE
            /\ loops' = loops + 1
            /\ pc' = IF pc \in {"idle", "returned"} THEN "createIndexes" ELSE pc
    /\ UNCHANGED <<ticks, shutdownOnce, closed, cancelled, indexes, cursor, page, idx,
                   store, ledger, call, rpcReq, outcome, tickErr, txres>>
    /\ UNCHANGED unitVars

NoDuplicateSignature(st) ==
    \A i, j \in DOMAIN st : st[i].signature = st[j].signature => i = j

\* Start: mongoRepo.CreateIndexes(ctx); a failure is logged as a warning and
\* the loop starts all the same.  The unique index cannot be built over
\* documents that already share a signature.
CreateIndexes ==
    /\ pc = "createIndexes"
    /\ \E ok \in BOOLEAN :
          /\ ok => ~cancelled /\ closed = 0 /\ NoDuplicateSignature(store)
          /\ indexes' = (indexes \/ ok)
    /\ pc' = "select"
    /\ UNCHANGED <<ticks, isRunning, shutdownOnce, closed, cancelled, cursor, page, idx,
                   store, ledger, call, rpcReq, outcome, tickErr, txres>>
    /\ UNCHANGED <<loops, unitVars>>

\* SelectDone of a Start that marks the indexer not running when it returns
SelectDoneClearsRunning ==
    /\ pc = "select"
    /\ cancelled
    /\ pc' = "returned"
    /\ isRunning' = FALSE
    /\ UNCHANGED <<ticks, shutdownOnce, closed, cancelled, indexes, cursor,
                   page, idx, store, ledger, call, rpcReq, outcome, tickErr, txres>>
    /\ UNCHANGED unitVars
    /\ loops' = loops - 1

\* Start: case <-ctx.Done()
SelectDone ==
    /\ pc = "select"
    /\ cancelled
    /\ pc' = "returned"
    /\ UNCHANGED <<ticks, isRunning, shutdownOnce, closed, cancelled, indexes, cursor,
                   page, idx, store, ledger, call, rpcReq, outcome, tickErr, txres>>
    /\ UNCHANGED unitVars
    /\ loops' = loops - 1

\* Start: case <-ticker.C
SelectTick ==
    /\ pc = "select"
    /\ ticks < MaxTicks
    /\ ticks' = ticks + 1
    /\ pc' = "starterSigs"
    /\ UNCHANGED <<isRunning, shutdownOnce, closed, cancelled, indexes, cursor,
                   page, idx, store, ledger, call, rpcReq, outcome, tickErr, txres>>
    /\ UNCHANGED <<loops, unitVars>>

(***************************************************************************)
(* internal/indexer: the program pipelines.  processStarterSignatures and  *)
(* processCounterSignatures are the same code over their own cursor and    *)
(* their own transaction handler; each is modelled as three steps of the   *)
(* goroutine: the page request, one transaction of the range loop, the     *)
(* cursor assignment.                                                      *)
(***************************************************************************)
\* EarlyReturn with a cursor that is dropped when no page came back
EarlyReturnResetsCursor(p) ==
    /\ pc' = PcAfter[p]
    /\ page' = <<>>
    /\ idx' = 0
    /\ cursor' = [cursor EXCEPT ![p] = NoSig]
    /\ UNCHANGED store

\* the return taken when the page request failed or the page is empty
EarlyReturn(p) ==
    /\ pc' = PcAfter[p]
    /\ page' = <<>>
    /\ idx' = 0
    /\ UNCHANGED <<cursor, store>>

\* GetSignaturesForAddress and the two early returns
Signatures(p) ==
    /\ pc = PcSigs[p]
    /\ LET lastSig == cursor[p]
           c == PageCall(lastSig)
           req == RpcRequest(c.limit, c.before, c.until)
       IN  /\ call' = [call EXCEPT ![p] = c]
           /\ rpcReq' = [rpcReq EXCEPT ![p] = req]
           /\ tickErr' = FALSE
           /\ txres' = NoTx
           /\ \E ok \in BOOLEAN :
                 /\ ok => ~cancelled
                 /\ LET sigs == RpcSignatures(p, Len(ledger[p]), req)
                    IN  IF ~ok
                        THEN /\ outcome' = [outcome EXCEPT ![p] = "err"]
                             /\ EarlyReturn(p)
                        ELSE IF Len(sigs) = 0
                        THEN /\ outcome' = [outcome EXCEPT ![p] = "empty"]
                             /\ EarlyReturn(p)
                        ELSE /\ outcome' = [outcome EXCEPT ![p] = "page"]
                             /\ page' = sigs
                             /\ idx' = 1
                             /\ pc' = PcTx[p]
                             /\ UNCHANGED <<cursor, store>>
    /\ UNCHANGED <<ticks, isRunning, shutdownOnce, closed, cancelled, indexes, ledger>>
    /\ UNCHANGED <<loops, unitVars>>

\* ContinueLoop with a transaction error that ends the pipeline call (the
\* page-level policy: return without touching the cursor)
ContinueLoopAbortsOnError(p, err) ==
    IF err
    THEN /\ idx' = idx
         /\ pc' = PcAfter[p]
    ELSE IF idx < Len(page)
    THEN /\ idx' = idx + 1
         /\ pc' = pc
    ELSE /\ idx' = idx
         /\ pc' = PcAdvance[p]

\* the range loop after one transaction: an error is logged and the loop
\* continues; after the last signature the function goes on to the cursor
ContinueLoop(p, err) ==
    IF idx < Len(page)
    THEN /\ idx' = idx + 1
         /\ pc' = pc
    ELSE /\ idx' = idx
         /\ pc' = PcAdvance[p]

processTransaction(p, st, signature, fetch, logs, env) ==
    IF p = "starter"
    THEN processStarterTransaction(st, signature, fetch, logs, env)
    ELSE processCounterTransaction(st, signature, fetch, logs, AccountKeys, env)

\* one iteration of the range loop: the whole of processStarterTransaction
\* or processCounterTransaction for sigs[idx]; the store is reachable or
\* failing for the length of the transaction
Transaction(p) ==
    /\ pc = PcTx[p]
    /\ LET signature == page[idx]
           logs == ledger[p][SlotOf(signature)]
       IN  \E fetch \in {"err", "nil", "tx"} : \E fault \in BOOLEAN :
             /\ cancelled => fetch = "err"
             /\ LET env == [indexes |-> indexes, down |-> (closed > 0 \/ cancelled),
                            fault |-> fault]
                    r == processTransaction(p, store, signature, fetch, logs, env)
                IN  /\ store' = r.store
                    /\ txres' = [p |-> p, sig |-> signature, fetch |-> fetch, err |-> r.err,
                                 panicked |-> r.panicked, events |-> r.events, puts |-> r.puts]
                    /\ tickErr' = (tickErr \/ r.err)
                    /\ IF r.panicked
                       THEN /\ pc' = "panicked"
                            /\ idx' = idx
                       ELSE ContinueLoop(p, r.err)
    /\ UNCHANGED <<ticks, isRunning, shutdownOnce, closed, cancelled, indexes, cursor,
                   page, ledger, call, rpcReq, outcome>>
    /\ UNCHANGED <<loops, unitVars>>

\* i.lastStarterSig = &sigs[len(sigs)-1].Signature
NextCursor(sigs) == sigs[Len(sigs)]

\* Advance that drops the cursor when a transaction of the page failed
AdvanceResetsOnError(p) ==
    /\ pc = PcAdvance[p]
    /\ cursor' = [cursor EXCEPT ![p] = IF tickErr THEN NoSig ELSE NextCursor(page)]
    /\ pc' = PcAfter[p]
    /\ page' = <<>>
    /\ idx' = 0
    /\ tickErr' = FALSE
    /\ txres' = NoTx
    /\ UNCHANGED <<ticks, isRunning, shutdownOnce, closed, cancelled, indexes,
                   store, ledger, call, rpcReq, outcome>>
    /\ UNCHANGED <<loops, unitVars>>

\* Advance over one cursor shared by the two pipelines
AdvanceSharedCursor(p) ==
    /\ pc = PcAdvance[p]
    /\ cursor' = [q \in Programs |-> NextCursor(page)]
    /\ pc' = PcAfter[p]
    /\ page' = <<>>
    /\ idx' = 0
    /\ tickErr' = FALSE
    /\ txres' = NoTx
    /\ UNCHANGED <<ticks, isRunning, shutdownOnce, closed, cancelled, indexes,
                   store, ledger, call, rpcReq, outcome>>
    /\ UNCHANGED <<loops, unitVars>>

Advance(p) ==
    /\ pc = PcAdvance[p]
    /\ cursor' = [cursor EXCEPT ![p] = NextCursor(page)]
    /\ pc' = PcAfter[p]
    /\ page' = <<>>
    /\ idx' = 0
    /\ tickErr' = FALSE
    /\ txres' = NoTx
    /\ UNCHANGED <<ticks, isRunning, shutdownOnce, closed, cancelled, indexes,
                   store, ledger, call, rpcReq, outcome>>
    /\ UNCHANGED <<loops, unitVars>>

processStarterSignatures == Signatures("starter")
processStarterTransactionStep == Transaction("starter")
advanceStarterSig == Advance("starter")
processCounterSignatures == Signatures("counter")
processCounterTransactionStep == Transaction("counter")
advanceCounterSig == Advance("counter")

(***************************************************************************)
(* internal/indexer: Shutdown.                                             *)
(***************************************************************************)
\* Shutdown without shutdownOnce: every call that finds the indexer running
\* closes the store
ShutdownWithoutOnce ==
    /\ pc # "panicked"
    /\ shutdownOnce' = TRUE
    /\ IF ~isRunning
       THEN UNCHANGED <<isRunning, closed>>
       ELSE /\ isRunning' = FALSE
            /\ closed' = closed + 1
    /\ UNCHANGED <<pc, ticks, cancelled, indexes, cursor, page, idx, store, ledger,
                   call, rpcReq, outcome, tickErr, txres>>
    /\ UNCHANGED <<loops, unitVars>>

Shutdown ==
    /\ pc # "panicked"
    /\ IF shutdownOnce
       THEN UNCHANGED <<shutdownOnce, isRunning, closed>>
       ELSE /\ shutdownOnce' = TRUE
            /\ IF ~isRunning
               THEN UNCHANGED <<isRunning, closed>>
               ELSE /\ isRunning' = FALSE
                    /\ closed' = closed + 1
    /\ UNCHANGED <<pc, ticks, cancelled, indexes, cursor, page, idx, store, ledger,
                   call, rpcReq, outcome, tickErr, txres>>
    /\ UNCHANGED <<loops, unitVars>>

Next ==
    \/ NewTx
    \/ Cancel
    \/ Start
    \/ CreateIndexes
    \/ SelectDone
    \/ SelectTick
    \/ processStarterSignatures
    \/ processStarterTransactionStep
    \/ advanceStarterSig
    \/ processCounterSignatures
    \/ processCounterTransactionStep
    \/ advanceCounterSig
    \/ Shutdown

Spec == Init /\ [][Next]_vars

TypeOK ==
    /\ pc \in {"idle", "createIndexes", "select", "starterSigs", "starterTx",
               "starterAdvance", "counterSigs", "counterTx", "counterAdvance",
               "returned", "panicked"}
    /\ ticks \in 0..MaxTicks
    /\ closed \in 0..1
    /\ loops \in 0..2
    /\ Len(ledger["starter"]) + Len(ledger["counter"]) <= MaxTx

(***************************************************************************)
(* cmd/indexer: the supervisor.  It starts the indexer once, cancels the    *)
(* top-level context when it is told to stop, and on cancellation calls     *)
(* Shutdown; nothing else calls Start or Shutdown.  Once the context is     *)
(* cancelled the supervisor does go on to its Shutdown call.                *)
(***************************************************************************)
SupervisorStart ==
    /\ pc = "idle"
    /\ Start

SupervisorCancel ==
    /\ isRunning
    /\ Cancel

SupervisorShutdown ==
    /\ cancelled
    /\ Shutdown

SupervisedNext ==
    \/ NewTx
    \/ SupervisorStart
    \/ SupervisorCancel
    \/ SupervisorShutdown
    \/ CreateIndexes
    \/ SelectDone
    \/ SelectTick
    \/ processStarterSignatures
    \/ processStarterTransactionStep
    \/ advanceStarterSig
    \/ processCounterSignatures
    \/ processCounterTransactionStep
    \/ advanceCounterSig

SupervisedSpec == Init /\ [][SupervisedNext]_vars /\ WF_vars(SupervisorShutdown)

(***************************************************************************)
(* The counter log parser on its own: one transaction with a single log    *)
(* line and a list of account keys goes through processCounterTransaction  *)
(* against an empty, reachable store.                                      *)
(***************************************************************************)
Patterns ==
    {"initialized", "incremented", "decremented", "added", "reset", "payment", "other"}

NumTexts == {Num(v) : v \in 0..Uint64Max} \cup {BigNum, NotNum}

AccountLists == {SubSeq(AccountKeys, 1, n) : n \in 0..Len(AccountKeys)}

ParserInit ==
    /\ NewIndexer
    /\ parseIn \in [line : {LogLine(pat, a, b) : pat \in Patterns, a \in NumTexts,
                                                 b \in NumTexts},
                    accounts : AccountLists]
    /\ parseOut = NotParsed
    /\ environ = NoEnv
    /\ boot = NotLoaded
    /\ procIn = NoEvent
    /\ procOut = NotProcessed

ParseLine ==
    /\ ~parseOut.done
    /\ LET logs == <<parseIn.line>>
           env == [indexes |-> TRUE, down |-> FALSE, fault |-> FALSE]
           r == processCounterTransaction(<<>>, Sig("counter", 1), "tx", logs,
                                          parseIn.accounts, env)
       IN  parseOut' = [done |-> TRUE,
                        actions |-> ParseLogs(logs, parseIn.accounts),
                        store |-> r.store]
    /\ UNCHANGED <<parseIn, indexerVars, configVars, processorVars>>

ParserNext == ParseLine

ParserSpec == ParserInit /\ [][ParserNext]_vars

(***************************************************************************)
(* Start-up on its own: config.Load reads the environment, indexer.New     *)
(* builds the Indexer from the Config that Load returned, and one event is *)
(* saved through the repository the Indexer holds.                         *)
(***************************************************************************)
Environments ==
    [SOLANA_RPC_URL : {""}, SOLANA_WS_URL : {""}, STARTER_PROGRAM_ID : {""},
     COUNTER_PROGRAM_ID : {""},
     START_SLOT : {NoText, IntText(-1), IntText(0), IntText(5)},
     POLL_INTERVAL_MS : {NoText, IntText(-1), IntText(0), IntText(500)},
     BATCH_SIZE : {NoText, IntText(-1), IntText(0), IntText(2), IntPrefixText(2), JunkText},
     MAX_CONCURRENCY : {NoText, IntText(0), IntText(1)},
     DATABASE_TYPE : {"", DatabaseTypeMongo, DatabaseTypePostgres, "sqlite"},
     DATABASE_URL : {"", "postgres://localhost:5432/db"},
     DATABASE_NAME : {""},
     SERVER_PORT : {NoText, IntText(0), IntText(1), IntText(65535), IntText(65536)},
     LOG_LEVEL : {""}]

\* the event saved through the repository
SampleEvent ==
    [event_type |-> "CounterResetEvent", signature |-> Sig("counter", 1),
     slot |-> SlotOf(Sig("counter", 1)), program_id |-> "counter", ordinal |-> 1,
     data |-> <<>>]

ConfigInit ==
    /\ NewIndexer
    /\ parseIn = NoLine
    /\ parseOut = NotParsed
    /\ environ \in Environments
    /\ boot = NotLoaded
    /\ procIn = NoEvent
    /\ procOut = NotProcessed

LoadConfig ==
    /\ boot.stage = "env"
    /\ LET r == Load(environ)
       IN  boot' = [boot EXCEPT !.stage = "loaded", !.err = r.err, !.cfg = r.cfg]
    /\ UNCHANGED <<environ, indexerVars, parserVars, processorVars>>

NewIndexerFromConfig ==
    /\ boot.stage = "loaded"
    /\ boot.err = "none"
    /\ \E dial \in BOOLEAN :
          LET r == New(boot.cfg, dial)
          IN  boot' = [boot EXCEPT !.stage = "built", !.err = r.err, !.repo = r.repo]
    /\ UNCHANGED <<environ, indexerVars, parserVars, processorVars>>

SaveThroughRepository ==
    /\ boot.stage = "built"
    /\ boot.err = "none"
    /\ LET env == [indexes |-> TRUE, down |-> FALSE, fault |-> FALSE]
           r == RepositorySaveEvent(boot.repo, <<>>, SampleEvent, env)
       IN  boot' = [boot EXCEPT !.stage = "saved", !.saved = r.store,
                                !.err = IF r.ret = "ok" THEN "none" ELSE r.cause]
    /\ UNCHANGED <<environ, indexerVars, parserVars, processorVars>>

ConfigNext == LoadConfig \/ NewIndexerFromConfig \/ SaveThroughRepository

ConfigSpec == ConfigInit /\ [][ConfigNext]_vars

(***************************************************************************)
(* The event processor on its own: one ProcessEvent call on a store that   *)
(* is empty or holds a record.  The event type and payload are what        *)
(* DecodeEvent returned without error for a frame ("decoder"), what        *)
(* convertCounterActionToEvent made of an action ("converter"), or any     *)
(* event type with a payload that is a struct value or a pointer           *)
(* ("direct").                                                             *)
(***************************************************************************)
Frames ==
    {DataLine(TRUE, disc, len) : disc \in makeDiscriminatorMap \cup {"unknown"},
                                 len \in {4, 8 + 40, 8 + 120}}

DecodedPairs ==
    {[src |-> "decoder", eventType |-> DecodeEvent(d).eventType, dyn |-> DecodeEvent(d).dyn,
      fields |-> <<>>] : d \in {f \in Frames : ~DecodeEvent(f).err}}

ConvertedPairs ==
    {[src |-> "converter", eventType |-> t,
      dyn |-> convertCounterActionToEvent([NilAction EXCEPT !.Type = t]).dyn,
      fields |-> convertCounterActionToEvent([NilAction EXCEPT !.Type = t]).fields] :
        t \in CounterEventTypes}

DirectPairs ==
    {[src |-> "direct", eventType |-> t, dyn |-> dyn, fields |-> <<>>] :
        t \in EventType \cup {"SomeOtherEvent"}, dyn \in {"value", "pointer"}}

ProcessorInit ==
    /\ NewIndexer
    /\ parseIn = NoLine
    /\ parseOut = NotParsed
    /\ environ = NoEnv
    /\ boot = NotLoaded
    /\ procIn \in {[src |-> e.src, programID |-> p, eventType |-> e.eventType,
                     dyn |-> e.dyn, fields |-> e.fields, st |-> st] :
                       e \in DecodedPairs \cup ConvertedPairs \cup DirectPairs,
                       p \in Programs, st \in {<<>>, <<SampleEvent>>}}
    /\ procOut = NotProcessed

CallProcessEvent ==
    /\ ~procOut.done
    /\ \E fault \in BOOLEAN :
          LET env == [indexes |-> TRUE, down |-> FALSE, fault |-> fault]
              signature == Sig(procIn.programID, 2)
              r == ProcessEvent(procIn.programID, procIn.st, signature, SlotOf(signature),
                                procIn.eventType,
                                [dyn |-> procIn.dyn, fields |-> procIn.fields], 0, env)
          IN  procOut' = [done |-> TRUE, ret |-> r.ret, panicked |-> r.panicked,
                          st |-> r.store, put |-> r.put]
    /\ UNCHANGED <<procIn, indexerVars, parserVars, configVars>>

ProcessorNext == CallProcessEvent

ProcessorSpec == ProcessorInit /\ [][ProcessorNext]_vars



(***************************************************************************)
(* Properties.                                                             *)
(***************************************************************************)
\* the step is the page request of pipeline p
IsPageRequest(p) == pc = PcSigs[p] /\ pc' # pc

\* the step is one iteration of the range loop of pipeline p
IsTransaction(p) == pc = PcTx[p] /\ (pc' # pc \/ idx' # idx)

\* the step is the cursor assignment of pipeline p
IsAdvance(p) == pc = PcAdvance[p] /\ pc' # pc

\* the step ends a pipeline call of p that got a non-empty page
EndsTick(p) == pc \in {PcTx[p], PcAdvance[p]} /\ pc' \notin {PcTx[p], PcAdvance[p]}

CountOf(st, signature) == Cardinality({i \in DOMAIN st : st[i].signature = signature})

NoStoreFault(puts) == \A i \in DOMAIN puts : puts[i].cause # "other"

\* C1: a pipeline call that got a non-empty page ends with the cursor on the
\* last element of the page, whatever happened to the transactions of the page.
C1_CursorAtPageEnd ==
    [][\A p \in Programs : EndsTick(p) => cursor'[p] = page[Len(page)]]_vars

\* C2: a pipeline call whose page request fails or returns an empty page
\* changes neither the cursor nor the store, and the next page request of the
\* pipeline is made with the same arguments as the one before.
C2_NoPageNoChange ==
    [][\A p \in Programs : IsPageRequest(p) =>
          /\ outcome'[p] \in {"err", "empty"} => cursor' = cursor /\ store' = store
          /\ outcome[p] \in {"err", "empty"} => call'[p] = call[p]]_vars

\* C2 witness: a page request failed for a pipeline whose cursor is set, with
\* records in the store.
C2_Witness ==
    \E p \in Programs :
        /\ outcome[p] = "err"
        /\ pc = PcAfter[p]
        /\ cursor[p] # NoSig
        /\ call[p].before = cursor[p]
        /\ store # <<>>

\* C3: every page request sent to the ledger carries limit = batch size, no
\* before and until = the cursor, and a page returned once the cursor is set
\* holds only signatures newer than the cursor.
C3_RequestCarriesCursor ==
    [][\A p \in Programs : IsPageRequest(p) =>
          /\ rpcReq'[p] = [limit |-> BatchSize, before |-> NoSig, until |-> cursor[p]]
          /\ (cursor[p] # NoSig /\ outcome'[p] = "page")
                => \A i \in DOMAIN page' : page'[i] > cursor[p]]_vars

\* C4: a pipeline call in which a transaction failed still goes through every
\* later signature of the page and ends with the cursor on the last element.
C4_FailureDoesNotStopPage ==
    [][\A p \in Programs : (tickErr /\ EndsTick(p)) =>
          /\ idx = Len(page)
          /\ cursor'[p] = page[Len(page)]]_vars

C6_EachEventStoredOnce ==
    (txres.fetch = "tx" /\ ~txres.panicked /\ txres.events >= 1 /\ NoStoreFault(txres.puts))
        => CountOf(store, txres.sig) = txres.events

\* C7: no two records share (signature, event_type, ordinal), and that
\* triple is the key of the unique index: an insert is rejected as a duplicate
\* only when a record with the same triple is stored.
C7_UniqueTriple ==
    /\ \A i, j \in DOMAIN store :
          (/\ store[i].signature = store[j].signature
           /\ store[i].event_type = store[j].event_type
           /\ store[i].ordinal = store[j].ordinal) => i = j
    /\ \A i \in DOMAIN txres.puts :
          txres.puts[i].cause = "duplicate" => txres.puts[i].had

\* C8: an insert rejected by the unique index is reported to the pipeline as
\* success.
C8_DuplicateAbsorbed ==
    \A i \in DOMAIN txres.puts :
        txres.puts[i].cause = "duplicate" => txres.puts[i].ret = "ok"

\* C9: processing a transaction whose n records are all in the store leaves
\* the store as it is.
C9_RedeliveryIdempotent ==
    [][\A p \in Programs :
          (/\ IsTransaction(p)
           /\ txres'.fetch = "tx"
           /\ txres'.events >= 1
           /\ CountOf(store, page[idx]) = txres'.events) => store' = store]_vars

\* C10: the Start loop never crashes, and returns only when its context is
\* cancelled.
C10_LoopSurvives ==
    /\ pc # "panicked"
    /\ pc = "returned" => cancelled

\* the log messages of the transaction with this signature
TxLogs(p, signature) == ledger[p][SlotOf(signature)]

\* the records of the store with this signature and event type
RecordsOf(st, signature, eventType) ==
    {i \in DOMAIN st : st[i].signature = signature /\ st[i].event_type = eventType}

\* the frame is malformed: not base64, shorter than a discriminator, or a
\* payload that ends before the last field of its event type
Malformed(l) ==
    \/ ~l.b64
    \/ l.len < 8
    \/ (l.disc \in Decodable /\ l.len - 8 < PayloadSize(l.disc))

\* positions of the well-formed frames of a known event type
RecognizedFrames(logs) ==
    {k \in DOMAIN logs : /\ logs[k].prefix = "Program data:"
                         /\ ~Malformed(logs[k])
                         /\ logs[k].disc \in StarterEventTypes}

\* positions of the lines that match one of the six patterns
RecognizedLines(logs) ==
    {k \in DOMAIN logs : logs[k].prefix = "Program log:" /\ logs[k].pat # "other"}

\* C11: a starter transaction whose log is one well-formed TokensMintedEvent
\* frame, processed with the store reachable, leaves exactly one record with
\* that event type and the signature, slot and program of the transaction.
C11_DecodedEventStored ==
    [][(/\ IsTransaction("starter")
        /\ txres'.fetch = "tx"
        /\ NoStoreFault(txres'.puts)
        /\ store = <<>>
        /\ TxLogs("starter", page[idx]) = <<DataLine(TRUE, "TokensMintedEvent", 8 + 80)>>)
          => /\ Cardinality(RecordsOf(store', page[idx], "TokensMintedEvent")) = 1
             /\ \A i \in RecordsOf(store', page[idx], "TokensMintedEvent") :
                   /\ store'[i].slot = SlotOf(page[idx])
                   /\ store'[i].program_id = "starter"]_vars

\* C12: every record of the store has an event type of the enumeration, every
\* insert attempted for a starter transaction is for a frame whose
\* discriminator is in the codec's map, and a transaction without such a
\* frame writes nothing.
C12_OnlyKnownEventTypes ==
    [][/\ \A i \in DOMAIN store' : store'[i].event_type \in EventType
       /\ (IsTransaction("starter") /\ txres'.fetch = "tx") =>
             LET frames == ParseProgramData(TxLogs("starter", page[idx]))
             IN  /\ \A k \in DOMAIN txres'.puts :
                       frames[txres'.puts[k].rec.ordinal + 1].disc \in makeDiscriminatorMap
                 /\ (\A k \in DOMAIN frames : frames[k].disc \notin makeDiscriminatorMap)
                       => store' = store]_vars

\* C12 witness: a starter transaction with a frame of unknown discriminator
\* has been processed while the store holds records.
C12_Witness ==
    /\ txres.p = "starter"
    /\ txres.fetch = "tx"
    /\ ~txres.panicked
    /\ \E k \in DOMAIN TxLogs("starter", txres.sig) :
          /\ TxLogs("starter", txres.sig)[k].b64
          /\ TxLogs("starter", txres.sig)[k].disc \notin makeDiscriminatorMap
    /\ store # <<>>

\* C13: for a processed transaction the number of events the codec emitted is
\* the number of its recognized frames (starter) or recognized lines (counter).
C13_EventsEqualRecognized ==
    (txres.fetch = "tx" /\ ~txres.panicked) =>
        txres.events = IF txres.p = "starter"
                       THEN Cardinality(RecognizedFrames(TxLogs("starter", txres.sig)))
                       ELSE Cardinality(RecognizedLines(TxLogs("counter", txres.sig)))

\* C14: a starter transaction with a malformed frame writes no record for it
\* and the batch goes on: the call returns without error or crash, every
\* well-formed decodable frame of the transaction is decoded, and the range
\* loop moves to the next signature.
C14_MalformedFrameSkipped ==
    [][(/\ IsTransaction("starter")
        /\ txres'.fetch = "tx"
        /\ \E k \in DOMAIN TxLogs("starter", page[idx]) :
              Malformed(TxLogs("starter", page[idx])[k]))
          => /\ ~txres'.panicked
             /\ ~txres'.err
             /\ pc' \in {PcTx["starter"], PcAdvance["starter"]}
             /\ txres'.events =
                  Cardinality({k \in RecognizedFrames(TxLogs("starter", page[idx])) :
                                  TxLogs("starter", page[idx])[k].disc \in Decodable})]_vars

\* the one line given to the parser matches this pattern
ParsedPattern(pat) == parseOut.done /\ parseIn.line.pat = pat

\* the store holds one record, of this event type and with these fields
StoredOne(eventType, fields) ==
    /\ Len(parseOut.store) = 1
    /\ parseOut.store[1].event_type = eventType
    /\ parseOut.store[1].data = fields

\* C15: with at least one account key and numbers whose reconstruction stays
\* within 64 bits, "incremented to N" is stored with new_value N and
\* old_value N - 1, "decremented to N" with new_value N and old_value N + 1,
\* "Added A ... New value: V" with added_value A, new_value V and old_value
\* V - A, each with counter = accounts[0].
C15_ValuesReconstructed ==
    LET line == parseIn.line
        accounts == parseIn.accounts
    IN  (parseOut.done /\ Len(accounts) >= 1) =>
          /\ (line.pat = "incremented" /\ line.a.kind = "num" /\ line.a.val >= 1) =>
                StoredOne("CounterIncrementedEvent",
                          [counter |-> accounts[1], old_value |-> line.a.val - 1,
                           new_value |-> line.a.val])
          /\ (line.pat = "decremented" /\ line.a.kind = "num" /\ line.a.val < Uint64Max) =>
                StoredOne("CounterDecrementedEvent",
                          [counter |-> accounts[1], old_value |-> line.a.val + 1,
                           new_value |-> line.a.val])
          /\ (/\ line.pat = "added" /\ line.a.kind = "num" /\ line.b.kind = "num"
              /\ line.a.val <= line.b.val) =>
                StoredOne("CounterAddedEvent",
                          [counter |-> accounts[1], old_value |-> line.b.val - line.a.val,
                           added_value |-> line.a.val, new_value |-> line.b.val])

\* C15 witness: "Added 2 to counter. New value: 5" was parsed with account
\* keys given and its record is stored with old_value 3.
C15_Witness ==
    /\ ParsedPattern("added")
    /\ parseIn.line.a = Num(2)
    /\ parseIn.line.b = Num(5)
    /\ Len(parseIn.accounts) = 3
    /\ Len(parseOut.store) = 1
    /\ parseOut.store[1].data.old_value = 3

\* C16: when the reconstruction of old_value underflows ("incremented to 0",
\* or "Added A ... New value: V" with A > V) the parser yields old_value 0.
C16_UnderflowYieldsZero ==
    LET line == parseIn.line
    IN  (/\ parseOut.done
         /\ \/ line.pat = "incremented" /\ line.a = Num(0)
            \/ /\ line.pat = "added" /\ line.a.kind = "num" /\ line.b.kind = "num"
               /\ line.a.val > line.b.val)
          => /\ Len(parseOut.actions) = 1
             /\ parseOut.actions[1].OldValue = 0

\* C17: a line that matches a pattern but has a number that does not parse as
\* an unsigned 64-bit integer, or that is parsed without accounts[0], emits
\* no event and stores no record.
C17_UnparseableLineSkipped ==
    LET line == parseIn.line
        unparsed(text) == text.kind # "num"
    IN  (/\ parseOut.done
         /\ line.pat # "other"
         /\ \/ line.pat \in {"incremented", "decremented"} /\ unparsed(line.a)
            \/ line.pat \in {"added", "payment"} /\ (unparsed(line.a) \/ unparsed(line.b))
            \/ Len(parseIn.accounts) = 0)
          => parseOut.actions = <<>> /\ parseOut.store = <<>>

\* C19: the record of a payment line has no payer field with fewer than two
\* account keys and no fee_collector field with fewer than three; with three
\* or more, payer = accounts[1] and fee_collector = accounts[2].
C19_MissingPayerAbsent ==
    LET accounts == parseIn.accounts
    IN  (/\ ParsedPattern("payment")
         /\ parseIn.line.a.kind = "num"
         /\ parseIn.line.b.kind = "num"
         /\ Len(accounts) >= 1)
          => /\ Len(parseOut.store) = 1
             /\ LET d == parseOut.store[1].data
                IN  /\ Len(accounts) < 2 => "payer" \notin DOMAIN d
                    /\ Len(accounts) < 3 => "fee_collector" \notin DOMAIN d
                    /\ Len(accounts) >= 3 => /\ d.payer = accounts[2]
                                             /\ d.fee_collector = accounts[3]

\* the event type of the action a line of this pattern yields
PatternEvent(pat) ==
    CASE pat = "initialized" -> "CounterInitializedEvent"
      [] pat = "incremented" -> "CounterIncrementedEvent"
      [] pat = "decremented" -> "CounterDecrementedEvent"
      [] pat = "added" -> "CounterAddedEvent"
      [] pat = "reset" -> "CounterResetEvent"
      [] pat = "payment" -> "CounterPaymentReceivedEvent"
      [] OTHER -> ""

\* f maps the positions of a sequence of length n to positions of logs, in order
InLineOrder(f, n) == \A i, j \in 1..n : i < j => f[i] < f[j]

\* C18: the events handed to the event processor for a counter transaction
\* are the events of its recognized lines, in line order, and the frames the
\* binary codec extracts from a starter transaction are in line order.
C18_EventsInLineOrder ==
    [][/\ (IsTransaction("counter") /\ txres'.fetch = "tx") =>
             LET logs == TxLogs("counter", page[idx])
                 puts == txres'.puts
             IN  /\ Len(puts) = Cardinality(RecognizedLines(logs))
                 /\ \E f \in [DOMAIN puts -> DOMAIN logs] :
                       /\ InLineOrder(f, Len(puts))
                       /\ \A i \in DOMAIN puts :
                             /\ puts[i].rec.event_type = PatternEvent(logs[f[i]].pat)
                             /\ puts[i].rec.ordinal = i - 1
       /\ (IsTransaction("starter") /\ txres'.fetch = "tx") =>
             LET logs == TxLogs("starter", page[idx])
                 frames == ParseProgramData(logs)
             IN  \E f \in [DOMAIN frames -> DOMAIN logs] :
                    /\ InLineOrder(f, Len(frames))
                    /\ \A i \in DOMAIN frames : frames[i] = logs[f[i]]]_vars

\* C18 witness: a counter transaction with two recognized lines was processed
\* and its two events were handed over, the increment before the addition.
C18_Witness ==
    /\ txres.p = "counter"
    /\ Len(txres.puts) = 2
    /\ txres.puts[1].rec.event_type = "CounterIncrementedEvent"
    /\ txres.puts[2].rec.event_type = "CounterAddedEvent"

\* C20: the store is closed at most once, and once Shutdown has run no step
\* closes the store again, clears the once flag or marks the indexer not
\* running.
C20_ShutdownIdempotent ==
    [][/\ closed' <= 1
       /\ shutdownOnce => /\ shutdownOnce'
                          /\ closed' = closed
                          /\ (isRunning' # isRunning => isRunning')]_vars

\* C20 witness: Shutdown has run and closed the store, and the indexer was
\* started again, so a further Shutdown call finds it running.
C20_Witness ==
    /\ shutdownOnce
    /\ closed = 1
    /\ isRunning

\* the goroutine of Start is inside a tick of the ticker
InTick ==
    pc \in {"starterSigs", "starterTx", "starterAdvance",
            "counterSigs", "counterTx", "counterAdvance"}

\* C21: once a Shutdown call has returned, the indexer is marked not running
\* by it and the store is closed, whatever the state the first call found.
C21_FirstShutdownCloses ==
    shutdownOnce => closed = 1

\* C22: once a Shutdown call has returned, IsRunning() is false, and stays
\* false whatever is called later.
C22_ShutdownMonotonic ==
    shutdownOnce => ~isRunning

\* C24: the store is never closed while a tick is in progress: no tick step
\* runs, and so no insert is attempted, once the store is closed.
C24_NoTickAfterClose ==
    closed > 0 => ~InTick

\* C25: once the context is cancelled no tick is started, and a transaction
\* processed under cancellation is the last one of its page that the range
\* loop takes up.
C25_CancellationStopsWork ==
    [][cancelled =>
          /\ ~(pc = "select" /\ pc' = "starterSigs")
          /\ \A p \in Programs : IsTransaction(p) => pc' # PcTx[p]]_vars

\* C26: no signature page is requested and no event is inserted unless the
\* indexes of CreateIndexes exist.
C26_IndexesBeforeTicks ==
    (InTick \/ store # <<>>) => indexes

\* the goroutine of Start is at a step of pipeline p
InPipeline(p) == pc \in {PcSigs[p], PcTx[p], PcAdvance[p]}

\* C27: a step of one pipeline leaves the cursor of the other pipeline as it
\* is, and the page request of a pipeline is made from its own cursor.
C27_CursorsIsolated ==
    [][\A p \in Programs : InPipeline(p) =>
          /\ \A q \in Programs \ {p} : cursor'[q] = cursor[q]
          /\ IsPageRequest(p) => call'[p] = PageCall(cursor[p])]_vars

\* C27 witness: both pipelines have assigned their cursor, each to the
\* signature of its own program.
C27_Witness ==
    /\ pc = "select"
    /\ cursor["starter"] = Sig("starter", 1)
    /\ cursor["counter"] = Sig("counter", 1)

\* C28: the counter pipeline can make its page request whatever the starter
\* pipeline is doing, and also when the starter pipeline has crashed.
C28_PipelinesIndependent ==
    (InPipeline("starter") \/ pc = "panicked") => ENABLED processCounterSignatures

\* the program whose transaction carries this signature
ProgramOfSig(signature) == IF signature % 2 = 0 THEN "starter" ELSE "counter"

\* C29: every record of the store has the signature of a transaction of the
\* ledger, the slot of that transaction, the program of the pipeline that
\* owns that transaction, and the type of an event in the log of that
\* transaction.
C29_EnvelopeOfOwnTransaction ==
    \A i \in DOMAIN store :
        LET r == store[i]
            p == ProgramOfSig(r.signature)
        IN  /\ r.program_id = p
            /\ SlotOf(r.signature) \in DOMAIN ledger[p]
            /\ r.slot = SlotOf(r.signature)
            /\ \E k \in DOMAIN TxLogs(p, r.signature) :
                  IF p = "counter"
                  THEN PatternEvent(TxLogs(p, r.signature)[k].pat) = r.event_type
                  ELSE TxLogs(p, r.signature)[k].disc = r.event_type

\* C29 witness: both pipelines have gone through a page and the store holds
\* a record of the counter program.
C29_Witness ==
    /\ cursor["starter"] # NoSig
    /\ cursor["counter"] # NoSig
    /\ \E i \in DOMAIN store : store[i].program_id = "counter"

\* the records a transaction step appended to the store, in order
Written(puts) ==
    LET ok == SelectSeq(puts, LAMBDA put : put.cause = "none")
    IN  [i \in DOMAIN ok |-> ok[i].rec]

InvalidInt(text, lo) == text # NoText /\ (text.kind # "int" \/ text.val < lo)

\* the environment configures a value that is out of range or invalid
ConfiguredInvalid(e) ==
    \/ InvalidInt(e.BATCH_SIZE, 1)
    \/ InvalidInt(e.MAX_CONCURRENCY, 1)
    \/ InvalidInt(e.SERVER_PORT, 1)
    \/ e.SERVER_PORT.kind = "int" /\ e.SERVER_PORT.val > 65535
    \/ InvalidInt(e.POLL_INTERVAL_MS, 1)
    \/ InvalidInt(e.START_SLOT, 0)
    \/ e.DATABASE_TYPE \notin {"", DatabaseTypeMongo, DatabaseTypePostgres}

\* C31: whenever the environment configures an out-of-range or invalid
\* value (BATCH_SIZE or MAX_CONCURRENCY not positive, SERVER_PORT outside
\* 1..65535, POLL_INTERVAL_MS not positive, START_SLOT negative, an integer
\* setting that is not a numeral, an unknown store type), config.Load
\* returns an error: no such value is accepted or replaced by a default.
C31_ValidationStrict ==
    (boot.stage = "loaded" /\ ConfiguredInvalid(environ)) => boot.err # "none"

\* C32: a configuration that passed validation with DATABASE_TYPE=postgres
\* lets indexer.New build the Indexer when the store answers, and the
\* event saved through its repository is persisted, as with mongodb.
C32_BothStoreTypesUsable ==
    (boot.stage \in {"built", "saved"} /\ boot.cfg.DatabaseType = DatabaseTypePostgres) =>
        /\ boot.err # "unsupported database type"
        /\ boot.stage = "saved" => boot.saved = <<SampleEvent>>

(***************************************************************************)
(* The event processor.                                                    *)
(***************************************************************************)
\* C33: every (event type, payload) pair that DecodeEvent returns without
\* error, and every pair that convertCounterActionToEvent produces, goes
\* through ProcessEvent without a type-assertion failure: the payload has
\* the dynamic type the handler of its event type asserts.
C33_PayloadTypeMatchesHandler ==
    (procOut.done /\ procIn.src \in {"decoder", "converter"}) => ~procOut.panicked

\* C38: ProcessEvent called with an event type that has no handler returns
\* success, makes no call of the store and leaves the store as it was.
C38_UnhandledTypeIsNoOp ==
    (procOut.done /\ procIn.eventType \notin Handled) =>
        /\ procOut.ret = "ok"
        /\ ~procOut.panicked
        /\ procOut.put = <<>>
        /\ procOut.st = procIn.st

\* C38 witness: ProcessEvent has returned for a starter event type that is
\* in the enumeration but has no handler, on a store that holds a record.
C38_Witness ==
    /\ procOut.done
    /\ procIn.eventType \in StarterEventTypes \ Handled
    /\ procIn.st = <<SampleEvent>>
    /\ procOut.st = <<SampleEvent>>

(***************************************************************************)
(* The log patterns.                                                       *)
(***************************************************************************)
\* C37: a log line yields at most one action and at most one stored event,
\* and a payment line "Payment of P lamports received. Counter incremented
\* to: N" yields exactly one CounterPaymentReceivedEvent and no
\* CounterIncrementedEvent.
C37_PatternsExclusive ==
    parseOut.done =>
        /\ Len(parseOut.actions) <= 1
        /\ Len(parseOut.store) <= 1
        /\ (/\ parseIn.line.pat = "payment"
            /\ MatchesDigits(parseIn.line.a)
            /\ MatchesDigits(parseIn.line.b)) =>
               /\ Len(parseOut.actions) = 1
               /\ parseOut.actions[1].Type = "CounterPaymentReceivedEvent"
               /\ Len(parseOut.store) = 1
               /\ parseOut.store[1].event_type = "CounterPaymentReceivedEvent"

\* C37 witness: a payment line whose two numerals differ has been parsed and
\* its one event stored with the count that follows "Counter incremented to:".
C37_Witness ==
    /\ parseOut.done
    /\ parseIn.line.pat = "payment"
    /\ parseIn.line.a = Num(2)
    /\ parseIn.line.b = Num(1)
    /\ Len(parseOut.store) = 1
    /\ parseOut.store[1].event_type = "CounterPaymentReceivedEvent"
    /\ parseOut.store[1].data.new_count = 1

(***************************************************************************)
(* The running mark and the cursors.                                       *)
(***************************************************************************)
\* C34: at most one polling loop runs per indexer, and while the indexer is
\* marked running no Start call gets past the check: no loop is begun and
\* no CreateIndexes is entered.
C34_SingleLoop ==
    [][/\ loops' <= 1
       /\ isRunning => /\ loops' <= loops
                       /\ pc' = "createIndexes" => pc = "createIndexes"]_vars

\* C35: the indexer is marked running exactly while a polling loop is
\* active; once Start has returned on cancellation the mark is cleared, so
\* that a new Start call is accepted.
C35_RunningWhileLoopActive ==
    (pc = "returned" /\ cancelled /\ loops = 0) => ~isRunning

\* C36: a cursor changes only in the cursor assignment of its own pipeline,
\* to a signature of the page that pipeline got for its own program; a
\* cursor that is set is a signature of its program's ledger and is never
\* set back to none.
C36_CursorFromOwnPage ==
    [][\A p \in Programs :
          /\ cursor'[p] # cursor[p] =>
                /\ IsAdvance(p)
                /\ outcome[p] = "page"
                /\ \E k \in DOMAIN page : page[k] = cursor'[p]
          /\ cursor[p] # NoSig => cursor'[p] # NoSig
          /\ cursor'[p] # NoSig =>
                \E k \in 1..Len(ledger'[p]) : cursor'[p] = Sig(p, k)]_vars

\* C36 witness: the starter pipeline has assigned its cursor in two ticks,
\* the second time from the page it asked for with the cursor of the first.
C36_Witness ==
    /\ ticks >= 2
    /\ pc = "counterSigs"
    /\ call["starter"].before = Sig("starter", 1)
    /\ outcome["starter"] = "page"
    /\ cursor["starter"] = Sig("starter", 1)
    /\ cursor["counter"] # NoSig

====
